---- MODULE Spec2Model ----
(***************************************************************************)
(* A model of trading_simulator.py: the TradingSimulator constructor, the  *)
(* price generator, the chart update and the interaction loop of           *)
(* TradingSimulator.__call__ with its final trade log.                     *)
(*                                                                         *)
(* Python values are modelled as follows.                                  *)
(*   - an optional value (None or a value x) is <<>> or <<x>>;             *)
(*   - a float that is a quotient of integers is the fraction              *)
(*     [num |-> n, den |-> d] in lowest terms with d > 0;                  *)
(*   - a uniform multiplier is a number of hundredths (75 is 0.75);        *)
(*   - the image is [height |-> h, cols |-> s], s the sequence of its      *)
(*     pixel columns from left to right, each the column content that      *)
(*     update painted (BlankCol for the zeros the loop starts with);       *)
(*   - wall-clock time is counted in units of 20 ms.                       *)
(***************************************************************************)
EXTENDS Integers, Sequences, FiniteSets, TLC

VARIABLES
    pc,                       \* position in the program
    args,                     \* the arguments __init__ was called with
    self,                     \* the fields __init__ sets, except trades
    trades,                   \* self.trades
    run_simulator,            \* locals of __call__ ...
    bought_position,
    next_val,
    previous_step_time,
    current_time,
    img,
    transaction_made_in_tick,
    k,
    shown,                    \* shape of the last image given to cv2.imshow
    stdout,                   \* what the current loop iteration has printed
    csv_file,                 \* trades.csv: <<>> while not written, else <<rows>>
    raised,                   \* <<>>, or <<e>> for the exception that left the program
    counts                    \* history of the session: what has happened so far

vars == <<pc, args, self, trades, run_simulator, bought_position, next_val,
          previous_step_time, current_time, img, transaction_made_in_tick,
          k, shown, stdout, csv_file, raised, counts>>

---------------------------------------------------------------------------
(* Bounds of the model. *)

\* the clock reading at which the model stops following a session
MaxTime == 7
\* the longest a loop iteration takes, in clock units
MaxDelay == 2
\* the most entries an open position gets
MaxEntries == 2
\* the most trades a session records
MaxTrades == 2
\* constructor arguments n_max, n_min range over 0..MaxN
MaxN == 2
\* constructor argument n_ticks ranges over -MaxTicks..MaxTicks
MaxTicks == 3
\* image widths and heights given to the constructor range over 0..MaxSide
MaxSide == 4
\* previous_value and expected_value given to number_generator range over 0..MaxValue
MaxValue == 50
MaxWalk == 120

---------------------------------------------------------------------------
(* Program constants. *)

ESC == 27
KEY_c == 99
KEY_v == 118
KEY_s == 115
KEY_q == 113
\* cv2.waitKey returns -1 when no key was pressed within the timeout
NO_KEY == -1
\* t_update = 0.02 s, one clock unit
T_UPDATE == 1
DEFAULT_N_MAX == 10
DEFAULT_N_MIN == 0
DEFAULT_HEIGHT == 250
DEFAULT_WIDTH == 1000
DEFAULT_N_TICKS == 100

None == <<>>
Some(x) == <<x>>

---------------------------------------------------------------------------
(* Python arithmetic. *)

Abs(x) == IF x < 0 THEN -x ELSE x

\* Python's a // b and a % b for b # 0 (floor division; the remainder has the
\* divisor's sign)
PyFloorDiv(a, b) == IF b > 0 THEN a \div b ELSE (-a) \div (-b)
PyMod(a, b) == a - b * PyFloorDiv(a, b)

\* int(a / b) for b # 0: truncation toward zero
IntOfQuotient(a, b) ==
    LET q == Abs(a) \div Abs(b)
    IN  IF (a < 0) = (b < 0) THEN q ELSE -q

RECURSIVE Gcd(_, _)
Gcd(a, b) == IF b = 0 THEN a ELSE Gcd(b, a % b)

\* the float n / d, d > 0
Frac(n, d) ==
    LET g == Gcd(Abs(n), d)
    IN  [num |-> IF n < 0 THEN -(Abs(n) \div g) ELSE n \div g, den |-> d \div g]

RECURSIVE Sum(_)
Sum(s) == IF s = <<>> THEN 0 ELSE Head(s) + Sum(Tail(s))

\* np.mean of a non-empty list of ints
np_mean(s) == Frac(Sum(s), Len(s))

\* mean - v for a float mean and an int v
FracMinusInt(f, v) == Frac(f.num - v * f.den, f.den)

---------------------------------------------------------------------------
(* TradingSimulator.__init__ *)

get_expected_value(n_max, n_min) == IntOfQuotient(45 * 10, 10)

\* init_exception without the assert of the last line
init_exception_no_assert(a) ==
    IF a.n_ticks = 0
    THEN "ZeroDivisionError"
    ELSE IF 9 * (a.n_max - a.n_min) = 0
    THEN "ZeroDivisionError"
    ELSE "none"

\* the exception __init__ raises on arguments a, or "none"
init_exception(a) ==
    IF a.n_ticks = 0
    THEN "ZeroDivisionError"                          \* image_shape[1] // n_ticks
    ELSE IF 9 * (a.n_max - a.n_min) = 0
    THEN "ZeroDivisionError"                          \* image_shape[0] / possible_range
    ELSE IF PyMod(a.image_shape[2], a.n_ticks) # 0
    THEN "AssertionError"
    ELSE "none"

\* the fields a completed __init__ leaves (trades, set to [], is a variable)
init_fields(a) ==
    LET possible_range == 9 * (a.n_max - a.n_min)
    IN  [ n_max |-> a.n_max,
          n_min |-> a.n_min,
          n_ticks |-> a.n_ticks,
          t_update |-> a.t_update,
          image_shape |-> a.image_shape,
          show_expected_value_line |-> a.show_expected_value_line,
          possible_range |-> possible_range,
          expected_value |-> get_expected_value(a.n_max, a.n_min),
          BAR_WIDTH |-> PyFloorDiv(a.image_shape[2], a.n_ticks),
          BAR_HEIGHT_MULTIPLIER |->
              IF possible_range > 0
              THEN Frac(a.image_shape[1], possible_range)
              ELSE Frac(-a.image_shape[1], -possible_range) ]

\* the object the loop runs on
obj == self[1]

---------------------------------------------------------------------------
(* TradingSimulator.number_generator *)

\* random.uniform(a, b), in hundredths; the end points can be drawn
uniform(a, b) == a..b

\* multipliers with the two ranges the other way round
multipliers_swapped(previous_value, expected_value) ==
    IF previous_value > expected_value
    THEN uniform(90, 125)
    ELSE uniform(60, 110)

\* the multipliers number_generator can draw
multipliers(previous_value, expected_value) ==
    IF previous_value > expected_value
    THEN uniform(75, 110)
    ELSE uniform(90, 125)

\* number_generator never returning less than 1
number_generator_at_least_one(previous_value, expected_value, u) ==
    IF IntOfQuotient(previous_value * u, 100) < 1
    THEN 1
    ELSE IntOfQuotient(previous_value * u, 100)

\* the value returned when u is drawn
number_generator(previous_value, expected_value, u) ==
    IntOfQuotient(previous_value * u, 100)

---------------------------------------------------------------------------
(* TradingSimulator.update *)

\* int(BAR_HEIGHT_MULTIPLIER * v)
row_of(o, v) ==
    IntOfQuotient(o.BAR_HEIGHT_MULTIPLIER.num * v, o.BAR_HEIGHT_MULTIPLIER.den)

\* whether next_col[i] = ... raises IndexError
index_error(o, i) == i < -o.image_shape[1] \/ i >= o.image_shape[1]

\* the row next_col[i] names
row_index(o, i) == IF i < 0 THEN i + o.image_shape[1] ELSE i

\* the bound i of a slice of next_col, as numpy clips it
slice_bound(o, i) ==
    LET h == o.image_shape[1]
        j == IF i < 0 THEN i + h ELSE i
    IN  IF j < 0 THEN 0 ELSE IF j > h THEN h ELSE j

\* the exception update raises, or "none"
update_exception(o, val) ==
    IF o.image_shape[1] < 0 \/ o.BAR_WIDTH < 0
    THEN "ValueError"                                 \* np.zeros
    ELSE IF o.show_expected_value_line
            /\ index_error(o, row_of(o, o.expected_value))
    THEN "IndexError"
    ELSE IF index_error(o, row_of(o, val))
    THEN "IndexError"
    ELSE "none"

\* the content of next_col: the rows painted, later layers over earlier ones
next_col(o, val, bought, sold) ==
    LET e  == row_of(o, o.expected_value)
        b  == row_of(o, val - 1)
        lo == IF val > o.expected_value THEN slice_bound(o, e) ELSE slice_bound(o, b)
        hi == IF val > o.expected_value THEN slice_bound(o, b) ELSE slice_bound(o, e)
    IN  [ height   |-> o.image_shape[1],
          expected |-> IF o.show_expected_value_line
                       THEN Some(row_index(o, e)) ELSE None,
          band     |-> IF (bought \/ sold) /\ lo < hi
                       THEN Some([lo |-> lo, hi |-> hi,
                                  colour |-> IF bought THEN "green" ELSE "red"])
                       ELSE None,
          value    |-> row_index(o, row_of(o, val)) ]

\* a pixel column of np.zeros
BlankCol(h) == [height |-> h, expected |-> None, band |-> None, value |-> -1]

\* np.zeros((*image_shape, 3))
np_zeros(shape) == [height |-> shape[1], cols |-> [i \in 1..shape[2] |-> BlankCol(shape[1])]]

\* np_delete dropping one pixel column too few
np_delete_short(cols, n) ==
    IF n - 1 >= Len(cols) THEN <<>> ELSE SubSeq(cols, n, Len(cols))

\* the pixel columns np.delete(img, np.s_[:BAR_WIDTH], axis=1) keeps
np_delete(cols, n) == IF n >= Len(cols) THEN <<>> ELSE SubSeq(cols, n + 1, Len(cols))

\* the image update returns when it raises nothing
update(o, image, val, bought, sold) ==
    [ height |-> image.height,
      cols   |-> np_delete(image.cols, o.BAR_WIDTH)
                 \o [i \in 1..o.BAR_WIDTH |-> next_col(o, val, bought, sold)] ]

\* (height, width) of an image
shape_of(image) == <<image.height, Len(image.cols)>>

---------------------------------------------------------------------------
(* The inputs the model draws. *)

\* the keys cv2.waitKey(1) returns
Keys == {ESC, KEY_c, KEY_v, KEY_s, KEY_q, NO_KEY}

\* the multipliers a session draws, among those random.uniform can return
Draws == {90, 125}

\* the default constructor arguments, on a narrow image (default 1000 wide, 100 ticks)
DefaultArgs(n_ticks, width) ==
    [ n_max |-> DEFAULT_N_MAX, n_min |-> DEFAULT_N_MIN, n_ticks |-> n_ticks,
      t_update |-> T_UPDATE, image_shape |-> <<DEFAULT_HEIGHT, width>>,
      show_expected_value_line |-> TRUE ]

\* the arguments of the sessions the model follows: the defaults, and a price
\* range (n_max = 6) that the values of a session leave
LoopArgs == {DefaultArgs(2, 4), [DefaultArgs(1, 3) EXCEPT !.n_max = 6]}

\* a line of output
Line(text, ints, floats) == [text |-> text, ints |-> ints, floats |-> floats]

---------------------------------------------------------------------------
(* The program: sim = TradingSimulator(...); sim() *)

\* nothing has happened yet
NoCounts ==
    [ columns        |-> 0,       \* calls of update that returned
      ticks          |-> 0,       \* times the tick gate fired
      buys           |-> 0,       \* buys that took effect
      sells          |-> 0,       \* sells that took effect
      tick_since_buy |-> FALSE ]  \* the tick gate fired after the last buy

Unbound ==
    /\ run_simulator = FALSE
    /\ bought_position = None
    /\ next_val = 0
    /\ previous_step_time = 0
    /\ current_time = 0
    /\ img = np_zeros(<<0, 0>>)
    /\ transaction_made_in_tick = FALSE
    /\ k = NO_KEY
    /\ shown = None
    /\ stdout = <<>>
    /\ counts = NoCounts

Init ==
    /\ pc = "new"
    /\ args \in LoopArgs
    /\ self = None
    /\ trades = <<>>
    /\ csv_file = None
    /\ raised = None
    /\ Unbound

locals == <<run_simulator, bought_position, next_val, previous_step_time,
            current_time, img, transaction_made_in_tick, k, shown, stdout>>

\* an exception leaves the program
Raise(e) ==
    /\ pc' = "raised"
    /\ raised' = Some(e)

\* TradingSimulator.__init__
construct ==
    /\ pc = "new"
    /\ IF init_exception(args) = "none"
       THEN /\ self' = Some(init_fields(args))
            /\ pc' = "constructed"
            /\ UNCHANGED raised
       ELSE /\ Raise(init_exception(args))
            /\ UNCHANGED self
    /\ trades' = <<>>
    /\ UNCHANGED <<args, csv_file, locals>>
    /\ UNCHANGED counts

\* __call__ up to the loop
call ==
    /\ pc = "constructed"
    /\ run_simulator' = TRUE
    /\ bought_position' = None
    /\ next_val' = obj.expected_value
    /\ previous_step_time' = current_time
    /\ img' = np_zeros(obj.image_shape)
    /\ transaction_made_in_tick' = FALSE
    /\ pc' = "loop"
    /\ UNCHANGED <<args, self, trades, current_time, k, shown, stdout, csv_file, raised>>
    /\ UNCHANGED counts

\* whether the model follows the session through key
Followed(key) ==
    /\ key = KEY_c /\ ~transaction_made_in_tick /\ bought_position # None
         => Len(bought_position[1]) < MaxEntries
    /\ key = KEY_v /\ ~transaction_made_in_tick /\ bought_position # None
         => Len(trades) < MaxTrades

\* the loop test, the next value, imshow and waitKey
poll ==
    /\ pc = "loop"
    /\ run_simulator
    /\ \E u \in multipliers(next_val, obj.expected_value) \cap Draws :
          next_val' = number_generator(next_val, obj.expected_value, u)
    /\ shown' = Some(shape_of(img))
    /\ \E key \in Keys : Followed(key) /\ k' = key
    /\ stdout' = <<>>
    /\ pc' = "dispatch"
    /\ UNCHANGED <<args, self, trades, run_simulator, bought_position,
                   previous_step_time, current_time, img,
                   transaction_made_in_tick, csv_file, raised>>
    /\ UNCHANGED counts

\* quit without the break
quit_no_break ==
    /\ pc = "dispatch"
    /\ k = ESC
    /\ pc' = "tick"
    /\ UNCHANGED <<args, self, trades, locals, csv_file, raised>>
    /\ UNCHANGED counts

\* k == 27
quit ==
    /\ pc = "dispatch"
    /\ k = ESC
    /\ pc' = "stopped"
    /\ UNCHANGED <<args, self, trades, locals, csv_file, raised>>
    /\ UNCHANGED counts

\* buy without the test of transaction_made_in_tick
buy_unguarded ==
    /\ pc = "dispatch"
    /\ k = KEY_c
    /\ stdout' = <<Line("Bought at", <<next_val>>, <<>>)>>
    /\ bought_position' = IF bought_position = None
                          THEN Some(<<next_val>>)
                          ELSE Some(Append(bought_position[1], next_val))
    /\ IF update_exception(obj, next_val) = "none"
       THEN /\ img' = update(obj, img, next_val, TRUE, FALSE)
            /\ transaction_made_in_tick' = TRUE
            /\ counts' = [counts EXCEPT !.columns = @ + 1, !.buys = @ + 1,
                                        !.tick_since_buy = FALSE]
            /\ pc' = "tick"
            /\ UNCHANGED raised
       ELSE /\ Raise(update_exception(obj, next_val))
            /\ UNCHANGED <<img, transaction_made_in_tick, counts>>
    /\ UNCHANGED <<args, self, trades, run_simulator, next_val, previous_step_time,
                   current_time, k, shown, csv_file>>

\* k == ord("c") and not transaction_made_in_tick
buy ==
    /\ pc = "dispatch"
    /\ k = KEY_c /\ ~transaction_made_in_tick
    /\ stdout' = <<Line("Bought at", <<next_val>>, <<>>)>>
    /\ bought_position' = IF bought_position = None
                          THEN Some(<<next_val>>)
                          ELSE Some(Append(bought_position[1], next_val))
    /\ IF update_exception(obj, next_val) = "none"
       THEN /\ img' = update(obj, img, next_val, TRUE, FALSE)
            /\ transaction_made_in_tick' = TRUE
            /\ counts' = [counts EXCEPT !.columns = @ + 1, !.buys = @ + 1,
                                        !.tick_since_buy = FALSE]
            /\ pc' = "tick"
            /\ UNCHANGED raised
       ELSE /\ Raise(update_exception(obj, next_val))
            /\ UNCHANGED <<img, transaction_made_in_tick, counts>>
    /\ UNCHANGED <<args, self, trades, run_simulator, next_val, previous_step_time,
                   current_time, k, shown, csv_file>>

\* sell_nothing counting as the transaction of the tick
sell_nothing_sets_flag ==
    /\ pc = "dispatch"
    /\ k = KEY_v /\ bought_position = None /\ ~transaction_made_in_tick
    /\ stdout' = <<Line("No bought shares.", <<>>, <<>>)>>
    /\ transaction_made_in_tick' = TRUE
    /\ pc' = "tick"
    /\ UNCHANGED <<args, self, trades, run_simulator, bought_position, next_val,
                   previous_step_time, current_time, img, k, shown, csv_file, raised>>
    /\ UNCHANGED counts

\* sell_nothing without its message
sell_nothing_silent ==
    /\ pc = "dispatch"
    /\ k = KEY_v /\ bought_position = None /\ ~transaction_made_in_tick
    /\ pc' = "tick"
    /\ UNCHANGED <<args, self, trades, locals, csv_file, raised>>
    /\ UNCHANGED counts

\* k == ord("v") and bought_position is None and not transaction_made_in_tick
sell_nothing ==
    /\ pc = "dispatch"
    /\ k = KEY_v /\ bought_position = None /\ ~transaction_made_in_tick
    /\ stdout' = <<Line("No bought shares.", <<>>, <<>>)>>
    /\ pc' = "tick"
    /\ UNCHANGED <<args, self, trades, run_simulator, bought_position, next_val,
                   previous_step_time, current_time, img, transaction_made_in_tick,
                   k, shown, csv_file, raised>>
    /\ UNCHANGED counts

\* sell leaving the position open
sell_keeps_position ==
    /\ pc = "dispatch"
    /\ k = KEY_v /\ bought_position # None /\ ~transaction_made_in_tick
    /\ IF update_exception(obj, next_val) = "none"
       THEN LET mean_bought_position == np_mean(bought_position[1])
            IN  /\ img' = update(obj, img, next_val, FALSE, TRUE)
                /\ stdout' = << Line("Sold at", <<next_val>>, <<>>),
                                Line("Profit",
                                     <<next_val>>,
                                     << FracMinusInt(mean_bought_position, next_val),
                                        mean_bought_position >>) >>
                /\ trades' = Append(trades, [buy |-> mean_bought_position,
                                             sell |-> next_val])
                /\ bought_position' = bought_position
                /\ transaction_made_in_tick' = TRUE
                /\ counts' = [counts EXCEPT !.columns = @ + 1, !.sells = @ + 1]
                /\ pc' = "tick"
                /\ UNCHANGED raised
       ELSE /\ Raise(update_exception(obj, next_val))
            /\ UNCHANGED <<img, stdout, trades, bought_position,
                           transaction_made_in_tick, counts>>
    /\ UNCHANGED <<args, self, run_simulator, next_val, previous_step_time,
                   current_time, k, shown, csv_file>>

\* sell keeping the latest trade only
sell_overwrites ==
    /\ pc = "dispatch"
    /\ k = KEY_v /\ bought_position # None /\ ~transaction_made_in_tick
    /\ IF update_exception(obj, next_val) = "none"
       THEN LET mean_bought_position == np_mean(bought_position[1])
            IN  /\ img' = update(obj, img, next_val, FALSE, TRUE)
                /\ stdout' = << Line("Sold at", <<next_val>>, <<>>),
                                Line("Profit",
                                     <<next_val>>,
                                     << FracMinusInt(mean_bought_position, next_val),
                                        mean_bought_position >>) >>
                /\ trades' = Append(<<>>, [buy |-> mean_bought_position,
                                             sell |-> next_val])
                /\ bought_position' = None
                /\ transaction_made_in_tick' = TRUE
                /\ counts' = [counts EXCEPT !.columns = @ + 1, !.sells = @ + 1]
                /\ pc' = "tick"
                /\ UNCHANGED raised
       ELSE /\ Raise(update_exception(obj, next_val))
            /\ UNCHANGED <<img, stdout, trades, bought_position,
                           transaction_made_in_tick, counts>>
    /\ UNCHANGED <<args, self, run_simulator, next_val, previous_step_time,
                   current_time, k, shown, csv_file>>

\* sell without the test of transaction_made_in_tick
sell_unguarded ==
    /\ pc = "dispatch"
    /\ k = KEY_v /\ bought_position # None
    /\ IF update_exception(obj, next_val) = "none"
       THEN LET mean_bought_position == np_mean(bought_position[1])
            IN  /\ img' = update(obj, img, next_val, FALSE, TRUE)
                /\ stdout' = << Line("Sold at", <<next_val>>, <<>>),
                                Line("Profit",
                                     <<next_val>>,
                                     << FracMinusInt(mean_bought_position, next_val),
                                        mean_bought_position >>) >>
                /\ trades' = Append(trades, [buy |-> mean_bought_position,
                                             sell |-> next_val])
                /\ bought_position' = None
                /\ transaction_made_in_tick' = TRUE
                /\ counts' = [counts EXCEPT !.columns = @ + 1, !.sells = @ + 1]
                /\ pc' = "tick"
                /\ UNCHANGED raised
       ELSE /\ Raise(update_exception(obj, next_val))
            /\ UNCHANGED <<img, stdout, trades, bought_position,
                           transaction_made_in_tick, counts>>
    /\ UNCHANGED <<args, self, run_simulator, next_val, previous_step_time,
                   current_time, k, shown, csv_file>>

\* k == ord("v") and not transaction_made_in_tick
sell ==
    /\ pc = "dispatch"
    /\ k = KEY_v /\ bought_position # None /\ ~transaction_made_in_tick
    /\ IF update_exception(obj, next_val) = "none"
       THEN LET mean_bought_position == np_mean(bought_position[1])
            IN  /\ img' = update(obj, img, next_val, FALSE, TRUE)
                /\ stdout' = << Line("Sold at", <<next_val>>, <<>>),
                                Line("Profit",
                                     <<next_val>>,
                                     << FracMinusInt(mean_bought_position, next_val),
                                        mean_bought_position >>) >>
                /\ trades' = Append(trades, [buy |-> mean_bought_position,
                                             sell |-> next_val])
                /\ bought_position' = None
                /\ transaction_made_in_tick' = TRUE
                /\ counts' = [counts EXCEPT !.columns = @ + 1, !.sells = @ + 1]
                /\ pc' = "tick"
                /\ UNCHANGED raised
       ELSE /\ Raise(update_exception(obj, next_val))
            /\ UNCHANGED <<img, stdout, trades, bought_position,
                           transaction_made_in_tick, counts>>
    /\ UNCHANGED <<args, self, run_simulator, next_val, previous_step_time,
                   current_time, k, shown, csv_file>>

\* status counting as the transaction of the tick
status_sets_flag ==
    /\ pc = "dispatch"
    /\ k = KEY_s
    /\ stdout' = IF bought_position # None
                 THEN <<Line("Position status", <<>>, <<np_mean(bought_position[1])>>)>>
                 ELSE <<Line("Position status", <<0>>, <<>>)>>
    /\ transaction_made_in_tick' = TRUE
    /\ pc' = "tick"
    /\ UNCHANGED <<args, self, trades, run_simulator, bought_position, next_val,
                   previous_step_time, current_time, img, k, shown, csv_file, raised>>
    /\ UNCHANGED counts

\* k == ord("s")
status ==
    /\ pc = "dispatch"
    /\ k = KEY_s
    /\ stdout' = IF bought_position # None
                 THEN <<Line("Position status", <<>>, <<np_mean(bought_position[1])>>)>>
                 ELSE <<Line("Position status", <<0>>, <<>>)>>
    /\ pc' = "tick"
    /\ UNCHANGED <<args, self, trades, run_simulator, bought_position, next_val,
                   previous_step_time, current_time, img, transaction_made_in_tick,
                   k, shown, csv_file, raised>>
    /\ UNCHANGED counts

\* k == ord("q")
help ==
    /\ pc = "dispatch"
    /\ k = KEY_q
    /\ stdout' = <<Line("c: Buy\nv: Sell\ns: Position status\nESC: Quit simulator",
                        <<>>, <<>>)>>
    /\ pc' = "tick"
    /\ UNCHANGED <<args, self, trades, run_simulator, bought_position, next_val,
                   previous_step_time, current_time, img, transaction_made_in_tick,
                   k, shown, csv_file, raised>>
    /\ UNCHANGED counts

\* no branch of the if statement is taken
no_branch ==
    /\ pc = "dispatch"
    /\ k # ESC
    /\ ~(k = KEY_c /\ ~transaction_made_in_tick)
    /\ ~(k = KEY_v /\ ~transaction_made_in_tick)
    /\ k # KEY_s
    /\ k # KEY_q
    /\ pc' = "tick"
    /\ UNCHANGED <<args, self, trades, locals, csv_file, raised>>
    /\ UNCHANGED counts

\* the clock readings the model follows: this iteration took d units
Elapse(d) ==
    /\ d \in 1..MaxDelay
    /\ current_time + d <= MaxTime
    /\ current_time' = current_time + d

\* tick_commit moving the last tick time on by t_update only
tick_commit_queued ==
    /\ pc = "tick"
    /\ \E d \in 1..MaxDelay : Elapse(d)
    /\ current_time' - previous_step_time > obj.t_update
    /\ stdout' = stdout \o << Line("Step", <<next_val>>, <<>>),
                              Line("", <<current_time' - previous_step_time>>, <<>>) >>
    /\ previous_step_time' = previous_step_time + obj.t_update
    /\ IF transaction_made_in_tick
       THEN /\ transaction_made_in_tick' = FALSE
            /\ counts' = [counts EXCEPT !.ticks = @ + 1, !.tick_since_buy = TRUE]
            /\ pc' = "loop"
            /\ UNCHANGED <<img, raised>>
       ELSE IF update_exception(obj, next_val) = "none"
       THEN /\ img' = update(obj, img, next_val, FALSE, FALSE)
            /\ transaction_made_in_tick' = FALSE
            /\ counts' = [counts EXCEPT !.columns = @ + 1, !.ticks = @ + 1,
                                        !.tick_since_buy = TRUE]
            /\ pc' = "loop"
            /\ UNCHANGED raised
       ELSE /\ Raise(update_exception(obj, next_val))
            /\ counts' = [counts EXCEPT !.ticks = @ + 1, !.tick_since_buy = TRUE]
            /\ UNCHANGED <<img, transaction_made_in_tick>>
    /\ UNCHANGED <<args, self, trades, run_simulator, bought_position, next_val,
                   k, shown, csv_file>>

\* current_time - previous_step_time > self.t_update
tick_commit ==
    /\ pc = "tick"
    /\ \E d \in 1..MaxDelay : Elapse(d)
    /\ current_time' - previous_step_time > obj.t_update
    /\ stdout' = stdout \o << Line("Step", <<next_val>>, <<>>),
                              Line("", <<current_time' - previous_step_time>>, <<>>) >>
    /\ previous_step_time' = current_time'
    /\ IF transaction_made_in_tick
       THEN /\ transaction_made_in_tick' = FALSE
            /\ counts' = [counts EXCEPT !.ticks = @ + 1, !.tick_since_buy = TRUE]
            /\ pc' = "loop"
            /\ UNCHANGED <<img, raised>>
       ELSE IF update_exception(obj, next_val) = "none"
       THEN /\ img' = update(obj, img, next_val, FALSE, FALSE)
            /\ transaction_made_in_tick' = FALSE
            /\ counts' = [counts EXCEPT !.columns = @ + 1, !.ticks = @ + 1,
                                        !.tick_since_buy = TRUE]
            /\ pc' = "loop"
            /\ UNCHANGED raised
       ELSE /\ Raise(update_exception(obj, next_val))
            /\ counts' = [counts EXCEPT !.ticks = @ + 1, !.tick_since_buy = TRUE]
            /\ UNCHANGED <<img, transaction_made_in_tick>>
    /\ UNCHANGED <<args, self, trades, run_simulator, bought_position, next_val,
                   k, shown, csv_file>>

\* not (current_time - previous_step_time > self.t_update)
tick_skip ==
    /\ pc = "tick"
    /\ \E d \in 1..MaxDelay : Elapse(d)
    /\ ~(current_time' - previous_step_time > obj.t_update)
    /\ pc' = "loop"
    /\ UNCHANGED <<args, self, trades, run_simulator, bought_position, next_val,
                   previous_step_time, img, transaction_made_in_tick, k, shown,
                   stdout, csv_file, raised>>
    /\ UNCHANGED counts

\* csv_rows with the latest trade first
csv_rows_reversed(records) ==
    [ header |-> <<"buy", "sell">>,
      rows   |-> [i \in 1..Len(records) |->
                    << records[Len(records) + 1 - i].buy,
                       records[Len(records) + 1 - i].sell >>] ]

\* the rows csv.DictWriter writes
csv_rows(records) ==
    [ header |-> <<"buy", "sell">>,
      rows   |-> [i \in 1..Len(records) |-> <<records[i].buy, records[i].sell>>] ]

\* log_trades closing the open position at the last value
log_trades_closes_position ==
    /\ pc = "stopped"
    /\ csv_file' = IF bought_position # None
                   THEN Some(csv_rows(Append(trades,
                                             [buy  |-> np_mean(bought_position[1]),
                                              sell |-> next_val])))
                   ELSE IF trades # <<>> THEN Some(csv_rows(trades)) ELSE csv_file
    /\ pc' = "returned"
    /\ UNCHANGED <<args, self, trades, locals, raised>>
    /\ UNCHANGED counts

\* the end of __call__: log the trades
log_trades ==
    /\ pc = "stopped"
    /\ csv_file' = IF trades # <<>> THEN Some(csv_rows(trades)) ELSE csv_file
    /\ pc' = "returned"
    /\ UNCHANGED <<args, self, trades, locals, raised>>
    /\ UNCHANGED counts

Next ==
    \/ construct
    \/ call
    \/ poll
    \/ quit
    \/ buy
    \/ sell_nothing
    \/ sell
    \/ status
    \/ help
    \/ no_branch
    \/ tick_commit
    \/ tick_skip
    \/ log_trades

Spec == Init /\ [][Next]_vars

---------------------------------------------------------------------------
(* The constructor alone, on every combination of small integer arguments. *)

CtorArgs ==
    [ n_max : 0..MaxN, n_min : 0..MaxN, n_ticks : -MaxTicks..MaxTicks,
      t_update : {T_UPDATE}, image_shape : (0..MaxSide) \X (0..MaxSide),
      show_expected_value_line : BOOLEAN ]

InitCtor ==
    /\ pc = "new"
    /\ args \in CtorArgs
    /\ self = None
    /\ trades = <<>>
    /\ csv_file = None
    /\ raised = None
    /\ Unbound

NextCtor == construct

SpecCtor == InitCtor /\ [][NextCtor]_vars

---------------------------------------------------------------------------
(* The generator alone: called on any value and any expected value, and then,
   as the loop does, on the value it returned. *)

InitGen ==
    /\ pc = "gen"
    /\ args \in [previous_value : 0..MaxValue, expected_value : 0..MaxValue]
    /\ next_val = args.previous_value
    /\ self = None
    /\ trades = <<>>
    /\ csv_file = None
    /\ raised = None
    /\ run_simulator = FALSE
    /\ bought_position = None
    /\ previous_step_time = 0
    /\ current_time = 0
    /\ img = np_zeros(<<0, 0>>)
    /\ transaction_made_in_tick = FALSE
    /\ k = NO_KEY
    /\ shown = None
    /\ stdout = <<>>
    /\ counts = NoCounts

\* next_val = number_generator(previous_value=next_val, expected_value=...)
generate ==
    /\ pc \in {"gen", "generated"}
    /\ next_val <= MaxValue
    /\ args' = [args EXCEPT !.previous_value = next_val]
    /\ \E u \in multipliers(next_val, args.expected_value) :
          next_val' = number_generator(next_val, args.expected_value, u)
    /\ pc' = "generated"
    /\ UNCHANGED <<self, trades, run_simulator, bought_position, previous_step_time,
                   current_time, img, transaction_made_in_tick, k, shown, stdout,
                   csv_file, raised>>
    /\ UNCHANGED counts

NextGen == generate

SpecGen == InitGen /\ [][NextGen]_vars

---------------------------------------------------------------------------
(* The price series of a session under the default configuration: the value
   the loop starts from and the values its iterations generate from it. *)

InitWalk ==
    /\ pc = "walk"
    /\ args = DefaultArgs(DEFAULT_N_TICKS, DEFAULT_WIDTH)
    /\ self = Some(init_fields(args))
    /\ next_val = get_expected_value(args.n_max, args.n_min)
    /\ trades = <<>>
    /\ csv_file = None
    /\ raised = None
    /\ run_simulator = TRUE
    /\ bought_position = None
    /\ previous_step_time = 0
    /\ current_time = 0
    /\ img = np_zeros(args.image_shape)
    /\ transaction_made_in_tick = FALSE
    /\ k = NO_KEY
    /\ shown = None
    /\ stdout = <<>>
    /\ counts = NoCounts

\* one iteration of the loop, as far as the price goes
walk ==
    /\ pc = "walk"
    /\ run_simulator
    /\ next_val <= MaxWalk
    /\ \E u \in multipliers(next_val, obj.expected_value) :
          next_val' = number_generator(next_val, obj.expected_value, u)
    /\ UNCHANGED <<pc, args, self, trades, run_simulator, bought_position,
                   previous_step_time, current_time, img, transaction_made_in_tick,
                   k, shown, stdout, csv_file, raised, counts>>

NextWalk == walk

SpecWalk == InitWalk /\ [][NextWalk]_vars

---------------------------------------------------------------------------
(* The claims. *)

\* C1: within one tick window at most one buy or sell takes effect.  While
\* transaction_made_in_tick is set, a buy-key or a sell-key changes neither
\* the open position, nor the trade history, nor the image, and prints
\* nothing; the flag is set only by a buy or a sell that took effect, and is
\* cleared only by the tick gate when it commits a tick.
C1_OneTransactionPerTickWindow ==
    [][ /\ (pc = "dispatch" /\ transaction_made_in_tick /\ k \in {KEY_c, KEY_v})
             => /\ bought_position' = bought_position
                /\ trades' = trades
                /\ img' = img
                /\ stdout' = <<>>
                /\ transaction_made_in_tick'
                /\ pc' = "tick"
        /\ (~transaction_made_in_tick /\ transaction_made_in_tick')
             => /\ pc = "dispatch"
                /\ k \in {KEY_c, KEY_v}
                /\ (bought_position' # bought_position \/ trades' # trades)
        /\ (transaction_made_in_tick /\ ~transaction_made_in_tick')
             => /\ pc = "tick"
                /\ previous_step_time' = current_time'
      ]_vars

\* a buy-key or sell-key was ignored after the transaction of the window
C1_Witness ==
    /\ pc = "tick"
    /\ k \in {KEY_c, KEY_v}
    /\ transaction_made_in_tick
    /\ stdout = <<>>

\* C2: a sell-key with the flag clear and a position open, at value next_val,
\* appends exactly one record {buy: mean of the entries, sell: next_val} to
\* the trade history, reports profit = mean - next_val, discards the entries
\* and sets the flag.
C2_SellRecordsTrade ==
    [][ (pc = "dispatch" /\ k = KEY_v /\ ~transaction_made_in_tick
           /\ bought_position # None)
          => /\ Len(trades') = Len(trades) + 1
             /\ SubSeq(trades', 1, Len(trades)) = trades
             /\ LET entries == bought_position[1]
                    r == trades'[Len(trades')]
                IN  /\ r.sell = next_val
                    /\ r.buy.num * Len(entries) = r.buy.den * Sum(entries)
                    /\ \E i \in 1..Len(stdout') :
                          /\ stdout'[i].text = "Profit"
                          /\ LET p == stdout'[i].floats[1]
                             IN  p.num * r.buy.den
                                   = (r.buy.num - next_val * r.buy.den) * p.den
             /\ bought_position' = None
             /\ transaction_made_in_tick'
      ]_vars

\* C3: a sell-key while no position is open changes nothing, whatever the
\* flag is: the position stays absent, and the trade history, the flag, the
\* image and the file are as before; nothing but a buy opens a position, and
\* a status with no position open reports 0.
C3_SellWithoutPositionChangesNothing ==
    [][ /\ (pc = "dispatch" /\ k = KEY_v /\ bought_position = None)
             => /\ bought_position' = None
                /\ trades' = trades
                /\ transaction_made_in_tick' = transaction_made_in_tick
                /\ img' = img
                /\ csv_file' = csv_file
        /\ (bought_position = None /\ bought_position' # None)
             => (pc = "dispatch" /\ k = KEY_c)
        /\ (pc = "dispatch" /\ k = KEY_s /\ bought_position = None)
             => stdout' = <<Line("Position status", <<0>>, <<>>)>>
      ]_vars

\* a sell-key was answered with "No bought shares."
C3_Witness ==
    /\ pc = "tick"
    /\ k = KEY_v
    /\ bought_position = None
    /\ stdout = <<Line("No bought shares.", <<>>, <<>>)>>

\* C4 as stated: every sell-key while no position is open is answered with
\* "No bought shares." and leaves the loop running.
C4_EverySellWithoutPositionReported ==
    [][ (pc = "dispatch" /\ k = KEY_v /\ bought_position = None)
          => /\ stdout' = <<Line("No bought shares.", <<>>, <<>>)>>
             /\ pc' = "tick"
             /\ raised' = None
      ]_vars

\* C4, amended: a sell-key while no position is open is answered with
\* "No bought shares." when transaction_made_in_tick is clear and with
\* nothing when it is set; either way the dispatch neither leaves the loop
\* nor raises, and the iteration goes on to the tick gate.
C4_SellWithoutPositionReportedWhenFlagClear ==
    [][ (pc = "dispatch" /\ k = KEY_v /\ bought_position = None)
          => /\ stdout' = IF transaction_made_in_tick
                          THEN <<>>
                          ELSE <<Line("No bought shares.", <<>>, <<>>)>>
             /\ pc' = "tick"
             /\ run_simulator'
             /\ raised' = None
      ]_vars

\* a sell-key with no position open was ignored without a message
C4_Witness ==
    /\ pc = "tick"
    /\ k = KEY_v
    /\ bought_position = None
    /\ transaction_made_in_tick
    /\ stdout = <<>>

\* C5: when the loop is left by an exception after a trade was recorded, the
\* trade history has been written to the file.
C5_FlushBeforePropagating ==
    (pc = "raised" /\ self # None /\ trades # <<>>)
      => csv_file = Some(csv_rows(trades))

\* C6: the file is written only at the end of __call__, and then if and only
\* if a trade was recorded; it holds the header buy,sell and one row per
\* trade, in the order of the trade history, which grows only at its end, by
\* the trade sold at the current value.
C6_TradesLoggedOnStop ==
    /\ [](/\ pc # "returned" => csv_file = None
          /\ pc = "returned" =>
               /\ (csv_file # None) <=> (trades # <<>>)
               /\ csv_file # None =>
                    /\ csv_file[1].header = <<"buy", "sell">>
                    /\ Len(csv_file[1].rows) = Len(trades)
                    /\ \A i \in 1..Len(trades) :
                          csv_file[1].rows[i] = <<trades[i].buy, trades[i].sell>>)
    /\ [][ trades' # trades
             => /\ Len(trades') = Len(trades) + 1
                /\ SubSeq(trades', 1, Len(trades)) = trades
                /\ trades'[Len(trades')].sell = next_val
         ]_vars

\* a session ended with two different trades in the file
C6_Witness ==
    /\ pc = "returned"
    /\ Len(trades) = 2
    /\ trades[1] # trades[2]
    /\ csv_file # None

\* C7 as stated, for n_ticks other than 0: __init__ raises exactly when the
\* image width is not an exact multiple of n_ticks.
C7_FailsIffNotMultiple ==
    (pc # "new" /\ args.n_ticks # 0) =>
      ((raised # None) <=>
         ~(\E q \in -(MaxSide + 1)..(MaxSide + 1) :
              args.image_shape[2] = q * args.n_ticks))

\* C7, amended: __init__ raises exactly when n_ticks is 0, or n_max equals
\* n_min, or the image width is not an exact multiple of n_ticks; otherwise it
\* completes and the object exists.
C7_ConstructionFails ==
    pc # "new" =>
      /\ (raised # None) <=>
           \/ args.n_ticks = 0
           \/ args.n_max = args.n_min
           \/ ~(\E q \in -(MaxSide + 1)..(MaxSide + 1) :
                   args.image_shape[2] = q * args.n_ticks)
      /\ raised = None => (pc = "constructed" /\ self # None)
      /\ raised # None => (pc = "raised" /\ self = None)

\* __init__ raised although the width is a multiple of a non-zero n_ticks
C7_Witness ==
    /\ pc = "raised"
    /\ args.n_ticks # 0
    /\ args.n_max = args.n_min
    /\ \E q \in -(MaxSide + 1)..(MaxSide + 1) :
          args.image_shape[2] = q * args.n_ticks

\* C8: the image has the configured shape whenever the loop holds one, so
\* has every image given to imshow, and every change of the image drops
\* BAR_WIDTH pixel columns on the left and appends BAR_WIDTH equal ones on
\* the right.
C8_FrameShapeConstant ==
    /\ []((self # None /\ pc \notin {"new", "constructed"}) =>
            /\ shape_of(img) = obj.image_shape
            /\ \A i \in 1..Len(img.cols) : img.cols[i].height = obj.image_shape[1]
            /\ shown \in {None, Some(obj.image_shape)})
    /\ [][ (img' # img /\ pc # "constructed")
             => LET w == Len(img.cols)
                    b == obj.BAR_WIDTH
                IN  /\ Len(img'.cols) = w
                    /\ \A i \in 1..(w - b) : img'.cols[i] = img.cols[i + b]
                    /\ \A i \in (w - b + 1)..w : img'.cols[i] = img'.cols[w]
         ]_vars

\* an image holding a bought and a sold column was given to imshow
C8_Witness ==
    /\ pc = "dispatch"
    /\ shown = Some(obj.image_shape)
    /\ \E i, j \in 1..Len(img.cols) :
          /\ img.cols[i].band # None
          /\ img.cols[j].band # None
          /\ img.cols[i].band[1].colour = "green"
          /\ img.cols[j].band[1].colour = "red"

\* C9: for previous_value >= 0 and expected_value >= 0 and every multiplier,
\* number_generator returns a non-negative integer between
\* floor(0.75 * previous_value) and 1.25 * previous_value.
C9_GeneratorBounds ==
    pc = "generated" =>
      /\ next_val \in Nat
      /\ (75 * args.previous_value) \div 100 <= next_val
      /\ 100 * next_val <= 125 * args.previous_value

\* the generator returned 1.25 times a positive value
C9_Witness ==
    /\ pc = "generated"
    /\ args.previous_value > 0
    /\ 100 * next_val = 125 * args.previous_value

\* C10: the quit-key takes the loop to its end in the iteration that polled
\* it, changing nothing else; from there the only step is the trade log,
\* which changes neither the image, the position, the trade history, the
\* flag, the tick time nor the key, and after it nothing happens.
C10_QuitStopsLoop ==
    [][ /\ (pc = "dispatch" /\ k = ESC)
             => /\ pc' = "stopped"
                /\ UNCHANGED <<img, trades, bought_position,
                               transaction_made_in_tick, previous_step_time,
                               current_time, next_val, k, shown, stdout, csv_file>>
        /\ pc = "stopped"
             => /\ pc' = "returned"
                /\ UNCHANGED <<img, trades, bought_position,
                               transaction_made_in_tick, previous_step_time,
                               current_time, next_val, k, shown, stdout>>
        /\ pc # "returned"
      ]_vars

\* the program ended after the quit-key
C10_Witness ==
    /\ pc = "returned"
    /\ k = ESC
    /\ shown # None

\* C11: the status-key and the help-key change nothing but the output.  A
\* step that handles either of them leaves the open position, the trade
\* history, transaction_made_in_tick and the image as they were, whether or
\* not the flag is set, and goes on to the tick gate.  The status-key prints
\* 0 when no position is open, and otherwise the arithmetic mean of the open
\* entries; the help-key prints the key-binding text.
C11_StatusAndHelpChangeNothing ==
    [][ (pc = "dispatch" /\ k \in {KEY_s, KEY_q})
          => /\ bought_position' = bought_position
             /\ trades' = trades
             /\ transaction_made_in_tick' = transaction_made_in_tick
             /\ img' = img
             /\ next_val' = next_val
             /\ csv_file' = csv_file
             /\ pc' = "tick"
             /\ Len(stdout') = 1
             /\ (k = KEY_s /\ bought_position = None)
                   => stdout'[1] = Line("Position status", <<0>>, <<>>)
             /\ (k = KEY_s /\ bought_position # None)
                   => /\ stdout'[1].text = "Position status"
                      /\ stdout'[1].ints = <<>>
                      /\ Len(stdout'[1].floats) = 1
                      /\ stdout'[1].floats[1].num * Len(bought_position[1])
                           = stdout'[1].floats[1].den * Sum(bought_position[1])
             /\ k = KEY_q
                   => stdout'[1].text
                        = "c: Buy\nv: Sell\ns: Position status\nESC: Quit simulator"
      ]_vars

\* the status-key was handled in a window that already had its transaction,
\* on a position of two entries
C11_Witness ==
    /\ pc = "tick"
    /\ k = KEY_s
    /\ transaction_made_in_tick
    /\ bought_position # None
    /\ Len(bought_position[1]) = 2
    /\ Len(stdout) = 1
    /\ stdout[1].text = "Position status"

\* C12: each committed tick contributes exactly one column to the chart.
\* When the tick gate fires (the elapsed time exceeds t_update), a neutral
\* column for the current value is rendered if and only if no buy or sell
\* rendered a column since the previous commit, and the flag is clear after
\* the commit; so in every state of the session the number of columns
\* appended equals the number of committed ticks, plus one if
\* transaction_made_in_tick is set.
C12_OneColumnPerCommittedTick ==
    /\ [](counts.columns = counts.ticks + (IF transaction_made_in_tick THEN 1 ELSE 0))
    /\ [][ (pc = "tick" /\ current_time' - previous_step_time > obj.t_update)
             => /\ ~transaction_made_in_tick
                     => /\ img' = update(obj, img, next_val, FALSE, FALSE)
                        /\ counts'.columns = counts.columns + 1
                /\ transaction_made_in_tick
                     => /\ img' = img
                        /\ counts'.columns = counts.columns
                /\ ~transaction_made_in_tick'
                /\ counts'.ticks = counts.ticks + 1
                /\ pc' = "loop"
          ]_vars

\* C13: a buy-key received with transaction_made_in_tick clear appends
\* exactly the current value, the one this iteration generated, to the end of
\* the open position's entries, creating the sequence if no position was
\* open; it keeps the earlier entries in order, leaves the trade history
\* unchanged and sets the flag.  Buys in successive tick windows accumulate
\* until a sell: the entries change only by such an append or by a sell.
C13_BuyAppendsCurrentValue ==
    [][ /\ (pc = "dispatch" /\ k = KEY_c /\ ~transaction_made_in_tick)
             => /\ bought_position' # None
                /\ bought_position'[1]
                     = (IF bought_position = None THEN <<>> ELSE bought_position[1])
                         \o <<next_val>>
                /\ next_val' = next_val
                /\ trades' = trades
                /\ transaction_made_in_tick'
        /\ (bought_position' # bought_position /\ pc # "constructed")
             => \/ pc = "dispatch" /\ k = KEY_c /\ ~transaction_made_in_tick
                \/ pc = "dispatch" /\ k = KEY_v /\ bought_position' = None
      ]_vars

\* C14: under the default configuration, for every value the price series
\* reaches from the expected value, the row of the current value,
\* int(BAR_HEIGHT_MULTIPLIER * next_val), lies inside the image, in
\* 0 .. height - 1, so update raises nothing when it renders a column for it.
C14_ValueRowInsideImage ==
    pc = "walk"
      => /\ row_of(obj, next_val) >= 0
         /\ row_of(obj, next_val) < obj.image_shape[1]
         /\ update_exception(obj, next_val) = "none"

\* C15: zero is an absorbing state of the price series.  number_generator
\* returns 0 for the previous value 0, whatever the expected value and
\* whatever multiplier is drawn; so once the current value is 0, every later
\* iteration generates 0 again, and 0 is the value every later buy, sell and
\* column is given.
C15_ZeroIsAbsorbing ==
    /\ [](\A e \in 0..MaxValue : \A u \in multipliers(0, e) :
             number_generator(0, e, u) = 0)
    /\ []((pc = "generated" /\ args.previous_value = 0) => next_val = 0)
    /\ [][ next_val = 0 => next_val' = 0 ]_vars

\* the generator was called on 0 with a positive expected value
C15_Witness ==
    /\ pc = "generated"
    /\ args.previous_value = 0
    /\ args.expected_value > 0
    /\ next_val = 0

\* C16: ticks are merged, never queued.  The tick gate of one iteration
\* commits at most one tick, however many multiples of t_update have elapsed
\* since the last committed tick, and a commit sets previous_step_time to the
\* current time: the time elapsed beyond t_update is not carried into later
\* iterations.  Without a commit previous_step_time stays as it is.
C16_TicksMergedNotQueued ==
    [][ /\ counts'.ticks \in {counts.ticks, counts.ticks + 1}
        /\ counts'.ticks = counts.ticks + 1
             => /\ pc = "tick"
                /\ current_time' - previous_step_time > obj.t_update
                /\ previous_step_time' = current_time'
        /\ (pc = "tick" /\ current_time' - previous_step_time > obj.t_update)
             => /\ counts'.ticks = counts.ticks + 1
                /\ previous_step_time' = current_time'
                /\ pc' \in {"loop", "raised"}
        /\ (pc \in {"loop", "dispatch", "tick"} /\ counts'.ticks = counts.ticks)
             => previous_step_time' = previous_step_time
      ]_vars

\* a tick was committed after three times t_update had elapsed, and the next
\* iteration starts with no time elapsed since the commit
C16_Witness ==
    /\ pc = "loop"
    /\ Len(stdout) > 0
    /\ stdout[Len(stdout)] = Line("", <<3 * obj.t_update>>, <<>>)
    /\ previous_step_time = current_time
    /\ counts.ticks = 1

\* C17: in every state the open position is either absent or a non-empty
\* sequence of bought values.  It becomes open only by a buy and absent only
\* by a sell; a buy leaves it open and a sell that records a trade leaves it
\* absent; so a position is open exactly when a buy has happened since the
\* start or since the last sell, and the mean that sell and status take is
\* taken over a non-empty sequence.
C17_PositionAbsentOrNonEmpty ==
    /\ [](\/ bought_position = None
          \/ /\ Len(bought_position) = 1
             /\ Len(bought_position[1]) > 0
             /\ \A i \in 1..Len(bought_position[1]) : bought_position[1][i] \in Nat)
    /\ [][ /\ (bought_position = None /\ bought_position' # None)
                => pc = "dispatch" /\ k = KEY_c /\ ~transaction_made_in_tick
           /\ (bought_position # None /\ bought_position' = None)
                => /\ pc = "dispatch" /\ k = KEY_v /\ ~transaction_made_in_tick
                   /\ Len(trades') = Len(trades) + 1
           /\ (pc = "dispatch" /\ k = KEY_c /\ ~transaction_made_in_tick)
                => bought_position' # None
           /\ (pc = "dispatch" /\ trades' # trades)
                => /\ bought_position # None
                   /\ trades'[Len(trades')].buy = np_mean(bought_position[1])
                   /\ bought_position' = None
          ]_vars

\* a position of two entries is open, one sell after the start
C17_Witness ==
    /\ pc \in {"loop", "dispatch", "tick"}
    /\ bought_position # None
    /\ Len(bought_position[1]) = 2
    /\ Len(trades) = 1

\* C18: the trade history is append-only and its records never change.  In
\* every step the history before the step is a prefix of the history after
\* it; it grows by exactly one record on each sell that takes effect, and
\* not at all on any other key or on a tick commit.
C18_TradesAppendOnly ==
    [][ /\ Len(trades') >= Len(trades)
        /\ SubSeq(trades', 1, Len(trades)) = trades
        /\ (pc = "dispatch" /\ k = KEY_v /\ ~transaction_made_in_tick
              /\ bought_position # None /\ transaction_made_in_tick')
             => Len(trades') = Len(trades) + 1
        /\ trades' # trades
             => /\ Len(trades') = Len(trades) + 1
                /\ pc = "dispatch" /\ k = KEY_v /\ ~transaction_made_in_tick
                /\ bought_position # None
                /\ counts'.sells = counts.sells + 1
        /\ (pc = "tick" \/ (pc = "dispatch" /\ k # KEY_v))
             => trades' = trades
      ]_vars

\* a second trade was recorded after the first
C18_Witness ==
    /\ pc = "tick"
    /\ k = KEY_v
    /\ transaction_made_in_tick
    /\ Len(trades) = 2
    /\ counts.sells = 2

\* C19: a buy and the sell that closes it never happen in the same tick
\* window.  Every sell that records a trade happens with the flag clear and
\* after the tick gate has committed at least once since the last buy of the
\* position it closes; and in every state the number of buys and sells that
\* took effect is at most the number of committed ticks plus one.
C19_BuyAndSellInDifferentWindows ==
    /\ [](counts.buys + counts.sells <= counts.ticks + 1)
    /\ [](transaction_made_in_tick \/ counts.buys + counts.sells <= counts.ticks)
    /\ [][ trades' # trades
             => /\ ~transaction_made_in_tick
                /\ counts.tick_since_buy
                /\ counts.buys >= 1
                /\ counts.ticks >= 1
          ]_vars

\* a sell closed a position one tick after its buy: two transactions that
\* took effect, one committed tick
C19_Witness ==
    /\ pc = "tick"
    /\ k = KEY_v
    /\ Len(trades) = 1
    /\ counts.buys = 1
    /\ counts.sells = 1
    /\ counts.ticks = 1

\* C20: the entries of a position still open when the quit-key arrives are
\* discarded.  When __call__ has returned, the rows in trades.csv are
\* exactly the closed trades in order, one for each sell that took effect,
\* whether or not a position is open; and if the session had buys but no
\* sell, no file has been written.
C20_OpenEntriesNeverStored ==
    pc = "returned"
      => /\ trades # <<>>
              => /\ csv_file # None
                 /\ Len(csv_file[1].rows) = counts.sells
                 /\ \A i \in 1..Len(csv_file[1].rows) :
                       csv_file[1].rows[i] = <<trades[i].buy, trades[i].sell>>
         /\ Len(trades) = counts.sells
         /\ counts.sells = 0 => csv_file = None

\* the session was quit with a position open after one closed trade
C20_Witness ==
    /\ pc = "returned"
    /\ bought_position # None
    /\ counts.buys = 2
    /\ counts.sells = 1
    /\ csv_file # None
    /\ Len(csv_file[1].rows) = 1

====
